---- MODULE Spec2Model ----
(***************************************************************************)
(* The task worker / queue subsystem of subfork:                           *)
(*   lib/subfork/api/task.py   Task, Queue, is_valid_task                  *)
(*   lib/subfork/worker.py     process_task, TaskRunner, Worker            *)
(*   lib/subfork/client.py     SubforkHttpClient._request                  *)
(* A Task's data dict is a record over the keys the worker reads or        *)
(* writes.  A key that is not in the dict holds Absent (AbsentS for the    *)
(* string-valued keys), a key holding Python None holds NullS.             *)
(***************************************************************************)
EXTENDS Integers, FiniteSets, Sequences, TLC

\* ---------------------------------------------------------------- bounds
MaxClock == 2        \* util.get_time() returns 0..MaxClock, never decreasing
MaxFailures == 4     \* largest failures count a queued record starts with
MaxExecs == 2        \* deliveries of one task that may reach the worker function
NumTasks == 3        \* tasks on the queue when the Worker thread starts
MaxThreads == 3      \* TaskRunner threads the remote service lets one Worker start
WaitTicks == 2       \* Worker.wait_time, in ticks of the wait
RunnerTasks == 2     \* tasks on the queue when the TaskRunner threads are followed to their end
NumConfigs == 2      \* worker configs handed to run_workers
MaxTime == 3         \* the FileWatcher's clock reads 0..MaxTime, in units of 6 hours
MaxEdits == 2        \* changes made to the watched config file
MaxCallbacks == 2    \* calls of restart_all in which os.execv fails
MaxTimeout == 3      \* largest timeout of Task.wait, in units of config.WAIT_TIME

\* ------------------------------------------------------ program constants
TASK_MAX_RETRY_LIMIT == 3
MIN_WAIT_TIME == 30
\* config.py 115, 130, 136: settings read from the config file
TASK_BATCH_SIZE == 2
TASK_RETRY_LIMIT == 2
WAIT_TIME == 30
\* util.HOURS_12 (43200 seconds), in the unit of the watcher's time: 6 hours
HOURS_12 == 2

Absent == -1
AbsentS == "absent"
NullS == "null"

TaskIds == {1}
Runners == {1}

\* validate_worker_config rejects limit > TASK_MAX_RETRY_LIMIT and nothing else
Limits == (0 - 1) .. TASK_MAX_RETRY_LIMIT

\* shapes of task.data()["data"] with respect to the worker function's signature:
\*   dict_ok   a dict that binds to the signature
\*   dict_bad  a dict that does not bind (the call raises TypeError)
\*   other     not a dict (a list, a scalar, None)
DataKinds == {"dict_ok", "dict_bad", "other"}

IntKeys == {"id", "started", "completed", "elapsed_time", "exitcode", "failures"}
StrKeys == {"data", "error", "results", "func"}
Keys == IntKeys \cup StrKeys

\* the record of a task as the remote queue first holds it
NewTask(t, kind, fails, sz) ==
    [none |-> FALSE, id |-> t, data |-> kind,
     started |-> Absent, completed |-> Absent, elapsed_time |-> Absent,
     error |-> AbsentS, exitcode |-> Absent, failures |-> fails,
     results |-> AbsentS, func |-> AbsentS, size |-> sz, ser |-> TRUE]

\* Python None where a Task is expected
NoTask == [NewTask(Absent, AbsentS, Absent, "small") EXCEPT !.none = TRUE]

HasKey(d, k) == IF k \in IntKeys THEN d[k] # Absent ELSE d[k] # AbsentS

\* ------------------------------------------------------------ api/task.py

\* is_valid_task(task_data)
is_valid_task(d) ==
    /\ ~d.none
    /\ \E k \in Keys : HasKey(d, k)                   \* not task_data
    /\ HasKey(d, "id")                                \* "id" in task_data
    /\ ~(d.results \notin {AbsentS, NullS, ""} /\ d.results # "str")
    /\ d.size # "over"                                \* getsizeof <= TASK_MAX_BYTES
    /\ d.ser                                          \* json.dumps(task_data)

\* Task.get_num_failures: self.data().get("failures", 0)
get_num_failures(d) == IF d.failures = Absent THEN 0 ELSE d.failures

\* an update that leaves the dict as it was
update_nothing(d, u) == d

\* dict.update(data) on the task's data: u is a function from some keys to their
\* new values.  A dict that is one key short of TASK_MAX_BYTES ("near") goes
\* over the cap when a key is added.
update(d, u) ==
    LET grown == \E k \in (DOMAIN u) \cap Keys : ~HasKey(d, k)
        e == [k \in DOMAIN d |-> IF k \in DOMAIN u THEN u[k] ELSE d[k]]
    IN [e EXCEPT !.size = IF d.size = "near" /\ grown THEN "over" ELSE d.size]

\* answers of the remote service to task/save, as _request returns them:
\*   stored      saved, the saved record comes back
\*   stored_bad  saved, but what comes back is no valid task record
\*   lost        not saved: _request returns None (connection error, 5xx, bad body)
\*   denied      not saved: HTTP 401/402/403, handle_response raises ClientError
SaveAnswers == {"stored", "stored_bad", "lost", "denied"}

\* Task.save(): what one call does with the task data d when the service answers a
save(d, a) ==
    IF is_valid_task(d)
    THEN [reqs |-> 1, sent |-> d, stored |-> a \in {"stored", "stored_bad"},
          ret |-> CASE a = "stored" -> "task"
                    [] a = "denied" -> "raised"
                    [] OTHER -> "false"]
    ELSE [reqs |-> 0, sent |-> NoTask, stored |-> FALSE, ret |-> "false"]

\* Task.update that saves whatever its save argument says
Task_update_saving(d, u, save_flag, a) ==
    LET e == update(d, u)
        s == save(e, a)
    IN [data |-> e, reqs |-> s.reqs, sent |-> s.sent, stored |-> s.stored, ret |-> s.ret]

\* Task.update(data, save=False): the new data and what the call requested
Task_update(d, u, save_flag, a) ==
    LET e == update(d, u)
        s == save(e, a)
    IN IF save_flag
       THEN [data |-> e, reqs |-> s.reqs, sent |-> s.sent, stored |-> s.stored, ret |-> s.ret]
       ELSE [data |-> e, reqs |-> 0, sent |-> NoTask, stored |-> FALSE, ret |-> "true"]

\* the remote service's records after a task/save request carrying d
Stored(rem, d, stored) ==
    IF stored /\ d.id \in DOMAIN rem THEN [rem EXCEPT ![d.id] = d] ELSE rem

\* ------------------------------------------------------------- worker.py

\* validate_worker_input(func, input_data): JSON data is never a tuple
validate_worker_input(kind) == IF kind = "dict_ok" THEN "true" ELSE "false"

\* the entry check without task.is_valid()
entry_rejects_null(d) == d.none

\* worker.py 181: not task or not task.is_valid()
entry_rejects(d) == d.none \/ ~is_valid_task(d)

\* worker.py 195: num_failures and (num_failures > runner.limit)
exceeded_at_limit(nf, lim) == nf # 0 /\ nf >= lim

exceeded(nf, lim) == nf # 0 /\ nf > lim

\* the requeue test with the retry budget one short
should_requeue_early(me, lim) ==
    me.success # "true" /\ me.num_failures + 1 < lim /\ me.input_is_valid = "true"

\* the requeue test without the validity of the input
should_requeue_unvalidated(me, lim) ==
    me.success # "true" /\ me.num_failures < lim

\* worker.py 265: not success and (num_failures < runner.limit) and input_is_valid
should_requeue(me, lim) ==
    me.success # "true" /\ me.num_failures < lim /\ me.input_is_valid = "true"

\* how the call worker_func(**worker_data) / worker_func(worker_data) can end
Outcomes(kind) ==
    IF kind = "dict_bad" THEN {"raise"}
    ELSE {"return_json", "return_nonjson", "raise", "exit"}

VARIABLES
    limit,      \* Worker.limit
    clock,      \* util.get_time()
    remote,     \* the remote service's copy of each task record
    queued,     \* ids of the tasks on the remote queue
    runner,     \* the TaskRunner threads and their process_task frames
    execs,      \* per task: worker function calls made for dequeued deliveries
    requeued,   \* per task: task/requeue requests made for dequeued deliveries
    poller,     \* the Worker thread
    ctask,      \* a Task object held by API client code
    api,        \* the latest Task/Queue API call made by client code
    waiter,     \* a Task.wait call of client code on its Task object
    worker,     \* Worker.run and its get_tasks generator, statement by statement
    queue,      \* ids of the tasks on the remote queue that Worker.run polls
    threads,    \* the TaskRunner threads Worker.run has started
    running,    \* the module global "running" of worker.py
    main,       \* the main thread in run_workers
    watcher,    \* the FileWatcher thread of run_workers
    file,       \* the watched config file on disk
    time,       \* the time the FileWatcher reads, in units of 6 hours
    health,     \* the HealthCheck thread of run_workers
    client,     \* the SubforkHttpClient that the Worker and its TaskRunners share
    request     \* per thread: its call of SubforkHttpClient._request

vars == <<limit, clock, remote, queued, runner, execs, requeued, poller, ctask, api,
          waiter, worker, queue, threads, running, main, watcher, file, time,
          health, client, request>>

\* the state of one process_task call and of the Task API
tvars == <<limit, clock, remote, queued, runner, execs, requeued, poller, ctask, api,
           waiter>>

\* the state of the FileWatcher and of what it reads
fvars == <<watcher, file, time>>

\* the state of the HealthCheck thread and of the shared client
hvars == <<health, client, request>>

\* the state of Worker.run, of run_workers and of the threads it starts
wvars == <<worker, queue, threads, running, main, fvars, hvars>>

\* a TaskRunner that has not been started
IdleRunner ==
    [pc |-> "idle", task |-> NoTask, origin |-> "none", given |-> NoTask,
     num_failures |-> 0, input_is_valid |-> "none", results |-> "none",
     success |-> "none", error |-> NullS, exitcode |-> 0, pending |-> FALSE,
     ret |-> "pending", calls |-> 0, saves |-> 0, requeues |-> 0, sent |-> NoTask,
     denied |-> "none"]

\* no Task.wait call made yet; elapsed is time.time() - start_time in units
\* of config.WAIT_TIME, gets are the task/get requests of the call and
\* answer is what the latest of them got
NoWait ==
    [pc |-> "idle", timeout |-> 0, elapsed |-> 0, gets |-> 0, answer |-> "none",
     at_call |-> NoTask]

\* no API call made yet
NoCall ==
    [op |-> "none", save_flag |-> FALSE, before |-> NoTask, reqs |-> 0,
     sent |-> NoTask, answer |-> "none", ret |-> "none"]

\* ------------------------------------------- Worker.run and run_workers

PollTasks == 1 .. NumTasks
Slots == 1 .. MaxThreads

\* the record the remote service holds for a task on the polled queue
QueuedTask(t) == NewTask(t, "dict_ok", Absent, "small")

\* Worker.run at its first statement; the counters are those of one cycle
NewWorker ==
    [pc |-> "test", stopped |-> FALSE,
     queue_size |-> 0, todo |-> 0, i |-> 0, task_num |-> 0, task |-> NoTask,
     sizes |-> 0, deqs |-> 0, sleeps |-> 0, waited |-> 0, made |-> 0]

\* a TaskRunner that was never created
NoThread ==
    [pc |-> "none", task |-> NoTask, inst |-> 0,
     calls |-> 0, saves |-> 0, requeues |-> 0]

\* a number in a worker config: missing, an int, or a value of another type
NumField(type, val) == [type |-> type, val |-> val]
NoNum == NumField("absent", 0)
NonNum == NumField("other", 0)

\* a worker config all of whose checks pass and whose Worker can be created
ValidConfig ==
    [queue |-> "render", function |-> "ok", limit |-> NumField("int", 3),
     wait |-> NumField("int", MIN_WAIT_TIME), creatable |-> TRUE]

\* worker configs: the valid one, and each way of spoiling one of its fields
WorkerConfigs ==
    {ValidConfig}
    \cup {[ValidConfig EXCEPT !.queue = q] : q \in {AbsentS, ""}}
    \cup {[ValidConfig EXCEPT !.function = f] : f \in {AbsentS, "", "unresolved"}}
    \cup {[ValidConfig EXCEPT !.limit = l] :
            l \in {NoNum, NonNum, NumField("int", TASK_MAX_RETRY_LIMIT + 1),
                   NumField("int", 0 - 1)}}
    \cup {[ValidConfig EXCEPT !.wait = w] :
            w \in {NoNum, NonNum, NumField("int", MIN_WAIT_TIME - 1)}}
    \cup {[ValidConfig EXCEPT !.creatable = FALSE]}

\* a thread run_workers has started: the Worker of config k, the HealthCheck
\* or the FileWatcher
Unit(kind, k) == [kind |-> kind, k |-> k]

\* run_workers at its first statement; stops are the threads whose stop() a
\* signal handler has called
NewMain(cfgs, auto) ==
    [pc |-> IF Len(cfgs) = 0 THEN "count" ELSE "loop",
     configs |-> cfgs, k |-> 1, worker_count |-> 0, spawned |-> {},
     rejected |-> {}, handler |-> 0, autorestart |-> auto,
     healthcheck |-> FALSE, watcher |-> FALSE, signalled |-> FALSE,
     stops |-> {}, ret |-> "pending"]

\* the config file: whether it exists, its mtime and its checksum; version
\* counts the changes made to it
NewFile(exists) == [exists |-> exists, mtime |-> 1, checksum |-> 1, version |-> 0]

\* no FileWatcher was created; running is the Event of that name and stopped
\* tells whether stop() was called
NoWatcher ==
    [pc |-> "none", start_time |-> 0, last_modified |-> Absent,
     last_checksum |-> Absent, callbacks |-> 0, seen |-> {},
     running |-> FALSE, stopped |-> FALSE]

\* FileWatcher.__init__ and start(): seen are the versions of the file that
\* has_changed() reported as changed
FileWatcher(t) == [NoWatcher EXCEPT !.pc = "started", !.start_time = t]

\* no HealthCheck was created; stopped is the thread's stop event
NoHealth == [pc |-> "none", stopped |-> FALSE]

\* HealthCheck.__init__ and start()
HealthCheck == [NoHealth EXCEPT !.pc = "started"]

\* the fields of the client that its methods assign after __init__; writers
\* are the threads whose requests have assigned one
NewClient == [last_error |-> NullS, last_request_ts |-> 0, writers |-> {}]

\* the threads that make requests through the one client: the Worker and
\* two of its TaskRunners
Callers == {"worker", "runner1", "runner2"}

\* a thread that is not in _request; ret is what its latest call returned
NoRequest == [pc |-> "idle", ret |-> "none"]

Init ==
    /\ limit \in Limits
    /\ clock = 0
    /\ remote \in [TaskIds -> {NewTask(t, k, f, s) :
                        t \in TaskIds, k \in DataKinds,
                        f \in {Absent} \cup (0 .. MaxFailures),
                        s \in {"small", "near"}}]
    /\ \A t \in TaskIds : remote[t].id = t
    /\ queued = TaskIds
    /\ runner = [r \in Runners |-> IdleRunner]
    /\ execs = [t \in TaskIds |-> 0]
    /\ requeued = [t \in TaskIds |-> 0]
    /\ poller = [pc |-> "poll", answer |-> "none", task |-> NoTask]
    /\ ctask = NoTask
    /\ api = NoCall
    /\ waiter = NoWait
    /\ worker = NewWorker
    /\ queue = {}
    /\ threads = [s \in Slots |-> NoThread]
    /\ running = "unset"
    /\ main = NewMain(<< >>, FALSE)
    /\ watcher = NoWatcher
    /\ file = NewFile(TRUE)
    /\ time = 0
    /\ health = NoHealth
    /\ client = NewClient
    /\ request = [u \in Callers |-> NoRequest]

\* ---------------------------------------------------- the Worker thread

\* answers of the remote service to task/dequeue, as _request returns them
DequeueAnswers == {"task", "none", "bad", "denied"}

\* Queue.dequeue_task(): the Task it returns, None (NoTask) when the response
\* is not a valid task record
dequeue_task(results) == IF is_valid_task(results) THEN results ELSE NoTask

\* the idle TaskRunner slot the next thread is created in
FreeRunner == CHOOSE r \in Runners :
                 /\ runner[r].pc = "idle"
                 /\ \A q \in Runners : runner[q].pc = "idle" => r <= q

\* Worker.get_tasks, worker.py 51: task = self.queue.dequeue_task()
Dequeue ==
    /\ poller.pc = "poll"
    /\ \E a \in DequeueAnswers, t \in TaskIds :
         \/ /\ a = "task"
            /\ t \in queued
            /\ execs[t] < MaxExecs
            /\ queued' = queued \ {t}
            /\ poller' = [pc |-> "got", answer |-> a, task |-> dequeue_task(remote[t])]
         \/ /\ a = "none"                    \* empty queue or failed request
            /\ poller' = [pc |-> "got", answer |-> a, task |-> dequeue_task(NoTask)]
            /\ UNCHANGED queued
         \/ /\ a = "bad"                     \* a record without an id
            /\ poller' = [pc |-> "got", answer |-> a,
                          task |-> dequeue_task([remote[t] EXCEPT !.id = Absent])]
            /\ UNCHANGED queued
         \/ /\ a = "denied"                  \* ClientError leaves Worker.run
            /\ poller' = [pc |-> "dead", answer |-> a, task |-> NoTask]
            /\ UNCHANGED queued
    /\ UNCHANGED <<wvars, waiter, limit, clock, remote, runner, execs, requeued, ctask, api>>

\* a TaskRunner thread started on task d
Started(d, from) ==
    [IdleRunner EXCEPT !.pc = "start", !.task = d, !.origin = from, !.given = d]

\* worker.py 52-55 and 63-65: skip an empty result, else
\* TaskRunner(self, task, task_num).start()
Spawn ==
    /\ poller.pc = "got"
    /\ IF poller.task.none
       THEN UNCHANGED runner
       ELSE /\ \E r \in Runners : runner[r].pc = "idle"
            /\ runner' = [runner EXCEPT ![FreeRunner] = Started(poller.task, "dequeue")]
    /\ poller' = [pc |-> "poll", answer |-> "none", task |-> NoTask]
    /\ UNCHANGED <<wvars, waiter, limit, clock, remote, queued, execs, requeued, ctask, api>>

\* ----------------------------------------------------------- process_task

\* process_task(runner, task) called by other code than TaskRunner.run, with
\* None or with a Task whose data is no valid task record
BadInputs ==
    {NoTask} \cup
    UNION {{[remote[t] EXCEPT !.id = Absent],
            [remote[t] EXCEPT !.results = "nonstr"],
            [remote[t] EXCEPT !.size = "over"],
            [remote[t] EXCEPT !.ser = FALSE]} : t \in TaskIds}

DirectCall ==
    /\ \E r \in Runners : runner[r].pc = "idle"
    /\ \E d \in BadInputs : runner' = [runner EXCEPT ![FreeRunner] = Started(d, "direct")]
    /\ UNCHANGED <<wvars, waiter, limit, clock, remote, queued, execs, requeued, poller, ctask, api>>

\* worker.py 180-205: the entry checks, the started stamp, the retry check
Begin(r) ==
    /\ runner[r].pc = "start"
    /\ LET me == runner[r] IN
       IF entry_rejects(me.task)
       THEN /\ runner' = [runner EXCEPT ![r] = [me EXCEPT !.pc = "done", !.ret = "none"]]
            /\ UNCHANGED <<clock, remote>>
       ELSE \E now \in clock .. MaxClock :
              LET up == Task_update(me.task, [started |-> now], FALSE, "lost")
                  nf == get_num_failures(up.data)
                  me1 == [me EXCEPT !.task = up.data, !.num_failures = nf,
                                    !.saves = me.saves + up.reqs]
              IN /\ clock' = now
                 /\ remote' = Stored(remote, up.sent, up.stored)
                 /\ runner' = [runner EXCEPT ![r] =
                      IF exceeded(nf, limit)
                      THEN [me1 EXCEPT !.pc = "done", !.ret = "none"]
                      ELSE [me1 EXCEPT !.pc = "ready"]]
    /\ UNCHANGED <<wvars, waiter, limit, queued, execs, requeued, poller, ctask, api>>

\* the except clause, worker.py 235-240
Failed(me, msg) ==
    [me EXCEPT !.success = "false", !.error = msg, !.exitcode = 1,
               !.num_failures = me.num_failures + 1]

\* process_task with the call of the worker function made only for an input
\* that validate_worker_input accepts
Invoke_gated(r) ==
    /\ runner[r].pc = "ready"
    /\ LET me == runner[r] IN
       \E resolves \in BOOLEAN :
         IF resolves /\ validate_worker_input(me.task.data) = "true"
         THEN LET up == Task_update(me.task, [func |-> "set"], FALSE, "lost") IN
              /\ runner' = [runner EXCEPT ![r] =
                    [me EXCEPT !.pc = "running",
                               !.task = up.data,
                               !.saves = me.saves + up.reqs,
                               !.input_is_valid = "true",
                               !.calls = me.calls + 1]]
              /\ remote' = Stored(remote, up.sent, up.stored)
              /\ execs' = IF me.origin = "dequeue"
                          THEN [execs EXCEPT ![me.task.id] = @ + 1]
                          ELSE execs
         ELSE /\ runner' = [runner EXCEPT ![r] =
                    [Failed(me, "attr") EXCEPT
                        !.pc = "finally",
                        !.input_is_valid = IF resolves THEN "false" ELSE "none"]]
              /\ UNCHANGED <<execs, remote>>
    /\ UNCHANGED <<wvars, waiter, limit, clock, queued, requeued, poller, ctask, api>>

\* worker.py 208-233: import_function, the func/worker update,
\* validate_worker_input and the call of the worker function
Invoke(r) ==
    /\ runner[r].pc = "ready"
    /\ LET me == runner[r] IN
       \E resolves \in BOOLEAN :
         IF resolves
         THEN LET up == Task_update(me.task, [func |-> "set"], FALSE, "lost") IN
              /\ runner' = [runner EXCEPT ![r] =
                    [me EXCEPT !.pc = "running",
                               !.task = up.data,
                               !.saves = me.saves + up.reqs,
                               !.input_is_valid = validate_worker_input(me.task.data),
                               !.calls = me.calls + 1]]
              /\ remote' = Stored(remote, up.sent, up.stored)
              /\ execs' = IF me.origin = "dequeue"
                          THEN [execs EXCEPT ![me.task.id] = @ + 1]
                          ELSE execs
         ELSE \* worker_func is None: worker_func.__name__ raises AttributeError
              /\ runner' = [runner EXCEPT ![r] =
                    [Failed(me, "attr") EXCEPT !.pc = "finally"]]
              /\ UNCHANGED <<execs, remote>>
    /\ UNCHANGED <<wvars, waiter, limit, clock, queued, requeued, poller, ctask, api>>

\* worker.py 230-243: the worker function ends
Finish(r) ==
    /\ runner[r].pc = "running"
    /\ LET me == runner[r] IN
       \E out \in Outcomes(me.task.data) :
         runner' = [runner EXCEPT ![r] =
            CASE out = "return_json" ->
                   [me EXCEPT !.pc = "finally", !.results = "json", !.success = "true"]
              [] out = "return_nonjson" ->
                   [me EXCEPT !.pc = "finally", !.results = "nonjson", !.success = "true"]
              [] out = "raise" ->
                   [Failed(me, "boom") EXCEPT !.pc = "finally"]
              [] OTHER ->    \* SystemExit and the like: not an Exception
                   [me EXCEPT !.pc = "finally", !.pending = TRUE]]
    /\ UNCHANGED <<wvars, waiter, limit, clock, remote, queued, execs, requeued, poller, ctask, api>>

\* the final dict with the failures count raised on every attempt
FinalState_counting(me, now) ==
    [completed |-> now,
     elapsed_time |-> now - (IF HasKey(me.task, "started") THEN me.task.started ELSE now),
     error |-> me.error,
     exitcode |-> me.exitcode,
     failures |-> me.num_failures + 1,
     results |-> "str"]

\* the dict of worker.py 250-259
FinalState(me, now) ==
    [completed |-> now,
     elapsed_time |-> now - (IF HasKey(me.task, "started") THEN me.task.started ELSE now),
     error |-> me.error,
     exitcode |-> me.exitcode,
     failures |-> me.num_failures,
     results |-> "str"]

\* worker.py 245-262: the final update and task.save()
FinalizeWith(r, answers) ==
    /\ runner[r].pc = "finally"
    /\ LET me == runner[r] IN
       IF me.results = "nonjson"
       THEN \* json.dumps(results) raises TypeError inside the finally block
            /\ runner' = [runner EXCEPT ![r] = [me EXCEPT !.pc = "done", !.ret = "raised"]]
            /\ \E now \in clock .. MaxClock : clock' = now
            /\ UNCHANGED remote
       ELSE \E now \in clock .. MaxClock, a \in answers :
              LET up == Task_update(me.task, FinalState(me, now), FALSE, "lost")
                  s == save(up.data, a)
              IN /\ clock' = now
                 /\ runner' = [runner EXCEPT ![r] =
                      [me EXCEPT !.task = up.data,
                                 !.saves = me.saves + up.reqs + s.reqs,
                                 !.sent = s.sent,
                                 !.denied = IF s.ret = "raised" THEN "save" ELSE "none",
                                 !.pc = IF s.ret = "raised" THEN "done" ELSE "saved",
                                 !.ret = IF s.ret = "raised" THEN "raised" ELSE me.ret]]
                 /\ remote' = Stored(Stored(remote, up.sent, up.stored), s.sent, s.stored)
    /\ UNCHANGED <<wvars, waiter, limit, queued, execs, requeued, poller, ctask, api>>

Finalize(r) == FinalizeWith(r, SaveAnswers)

\* answers of the remote service to task/requeue
RequeueAnswers == {"ok", "fail", "denied"}

\* worker.py 276: return exitcode
return_exitcode(me) == IF me.exitcode = 0 THEN "0" ELSE "1"

\* worker.py 264-276: the requeue decision, Task.requeue() and the return.
\* "return 1" in the finally block discards an exception in flight; without it
\* the exception goes on once the block ends.
Requeue(r) ==
    /\ runner[r].pc = "saved"
    /\ LET me == runner[r] IN
       IF should_requeue(me, limit)
       THEN \E a \in RequeueAnswers :
              /\ runner' = [runner EXCEPT ![r] =
                    [me EXCEPT !.pc = "done",
                               !.requeues = me.requeues + 1,
                               !.denied = IF a = "denied" THEN "requeue" ELSE "none",
                               !.ret = IF a = "denied" \/ me.pending THEN "raised"
                                       ELSE return_exitcode(me)]]
              /\ queued' = IF a = "ok" THEN queued \cup {me.task.id} ELSE queued
              /\ requeued' = IF me.origin = "dequeue"
                             THEN [requeued EXCEPT ![me.task.id] = @ + 1]
                             ELSE requeued
       ELSE /\ runner' = [runner EXCEPT ![r] = [me EXCEPT !.pc = "done", !.ret = "1"]]
            /\ UNCHANGED <<queued, requeued>>
    /\ UNCHANGED <<wvars, waiter, limit, clock, remote, execs, poller, ctask, api>>

\* TaskRunner.run returns: the thread ends
Release(r) ==
    /\ runner[r].pc = "done"
    /\ runner' = [runner EXCEPT ![r] = IdleRunner]
    /\ UNCHANGED <<wvars, waiter, limit, clock, remote, queued, execs, requeued, poller, ctask, api>>

\* ------------------------------------------- Task and Queue API calls

\* answers of the remote service to task/get
GetAnswers == {"task", "none", "denied"}

\* Queue.get_task(taskid): any truthy response becomes a Task
ClientGet ==
    /\ \E t \in TaskIds, a \in GetAnswers :
         /\ ctask' = IF a = "task" THEN remote[t] ELSE NoTask
         /\ api' = [NoCall EXCEPT !.op = "get", !.before = ctask, !.reqs = 1,
                                  !.answer = a,
                                  !.ret = CASE a = "task" -> "task"
                                            [] a = "denied" -> "raised"
                                            [] OTHER -> "none"]
    /\ UNCHANGED <<wvars, waiter, limit, clock, remote, queued, runner, execs, requeued, poller>>

\* the dicts client code passes to Task.update
ApiUpdates ==
    {[results |-> "nonstr"], [results |-> "str"], [exitcode |-> 0],
     [error |-> "boom", ser |-> FALSE]}

\* Task.update(data, save)
ClientUpdate ==
    /\ ~ctask.none
    /\ \E u \in ApiUpdates, save_flag \in BOOLEAN, a \in SaveAnswers :
         LET up == Task_update(ctask, u, save_flag, a) IN
         /\ ctask' = up.data
         /\ remote' = Stored(remote, up.sent, up.stored)
         /\ api' = [op |-> "update", save_flag |-> save_flag, before |-> ctask,
                    reqs |-> up.reqs, sent |-> up.sent,
                    answer |-> IF up.reqs = 0 THEN "none" ELSE a, ret |-> up.ret]
    /\ UNCHANGED <<wvars, waiter, limit, clock, queued, runner, execs, requeued, poller>>

\* Task.save()
ClientSave ==
    /\ ~ctask.none
    /\ \E a \in SaveAnswers :
         LET s == save(ctask, a) IN
         /\ remote' = Stored(remote, s.sent, s.stored)
         /\ api' = [op |-> "save", save_flag |-> FALSE, before |-> ctask,
                    reqs |-> s.reqs, sent |-> s.sent,
                    answer |-> IF s.reqs = 0 THEN "none" ELSE a, ret |-> s.ret]
    /\ UNCHANGED <<wvars, waiter, limit, clock, queued, runner, execs, requeued, poller, ctask>>

Min(a, b) == IF a <= b THEN a ELSE b

\* Task.is_done()
is_done_truthy(d) ==
    \/ d.completed \notin {Absent, 0}
    \/ d.error \notin {AbsentS, NullS, ""}
    \/ d.exitcode \notin {Absent, 0}

is_done(d) ==
    \/ d.completed # Absent
    \/ d.error \notin {AbsentS, NullS}
    \/ d.exitcode # Absent

\* Task.is_done() called by client code
ClientIsDone ==
    /\ ~ctask.none
    /\ api' = [NoCall EXCEPT !.op = "is_done", !.before = ctask,
                             !.ret = IF is_done(ctask) THEN "true" ELSE "false"]
    /\ UNCHANGED <<wvars, waiter, limit, clock, remote, queued, runner, execs,
                   requeued, poller, ctask>>

\* the key/value pairs of a record the service returned
Items(rec) == [k \in {j \in Keys : HasKey(rec, j)} |-> rec[k]]

\* Task.sync(): the local data after Queue.get_task answered a
sync(d, a) ==
    IF a = "task" THEN update(d, Items(remote[d.id])) ELSE d

\* the timeouts client code passes to Task.wait
Timeouts == 1 .. MaxTimeout

\* task.py 212-213: Task.wait(timeout) is called
WaitCall ==
    /\ ~ctask.none
    /\ waiter.pc = "idle"
    /\ \E timeout \in Timeouts :
         waiter' = [NoWait EXCEPT !.pc = "test", !.timeout = timeout,
                                  !.at_call = ctask]
    /\ UNCHANGED <<wvars, limit, clock, remote, queued, runner, execs, requeued,
                   poller, ctask, api>>

\* task.py 214, 220: while not self.is_done()
WaitTest ==
    /\ waiter.pc = "test"
    /\ waiter' = [waiter EXCEPT !.pc = IF is_done(ctask) THEN "returned" ELSE "sleep"]
    /\ UNCHANGED <<wvars, limit, clock, remote, queued, runner, execs, requeued,
                   poller, ctask, api>>

\* task.py 215-219: time.sleep(wait_time), self.sync() and the timeout test;
\* the sleep and the request take one WAIT_TIME or more
WaitSync_untimed ==
    /\ waiter.pc = "sleep"
    /\ \E a \in GetAnswers, slept \in 1 .. 2 :
         /\ ctask' = sync(ctask, a)
         /\ waiter' = [waiter EXCEPT
                          !.elapsed = Min(waiter.elapsed + slept, MaxTimeout),
                          !.gets = Min(waiter.gets + 1, MaxTimeout),
                          !.answer = a, !.pc = "test"]
    /\ UNCHANGED <<wvars, limit, clock, remote, queued, runner, execs, requeued,
                   poller, api>>

WaitSync ==
    /\ waiter.pc = "sleep"
    /\ \E a \in GetAnswers, slept \in 1 .. 2 :
         LET e == Min(waiter.elapsed + slept, MaxTimeout) IN
         /\ ctask' = sync(ctask, a)
         /\ waiter' = [waiter EXCEPT !.elapsed = e,
                                     !.gets = waiter.gets + 1,
                                     !.answer = a,
                                     !.pc = IF e >= waiter.timeout
                                            THEN "returned" ELSE "test"]
    /\ UNCHANGED <<wvars, limit, clock, remote, queued, runner, execs, requeued,
                   poller, api>>

\* ------------------------------------------------------------ Worker.run


\* the Worker thread has ended: run returned, or an exception left it
Terminated(w) == w.pc \in {"exited", "dead"}

\* answers of the remote service to queue/size, as _request returns them:
\* an int, a value of another type (None when the request failed), or an
\* error status that handle_response turns into ClientError
SizeAnswers == {"int", "other", "denied"}

\* Queue.length(): 0 unless the response is an int
length(a, n) == IF a = "int" THEN n ELSE 0

\* worker.py 49: range(min((queue_size or 0), chunk_size))
batch(queue_size, chunk_size) == Min(queue_size, chunk_size)

\* the for loop of get_tasks after an iteration: the next one, or the
\* generator ends and Worker.run goes on to its wait
next_iteration(w) == IF w.i = w.todo THEN "wait" ELSE "loop"

\* worker.py 62: while not self.stopped()
LoopTest ==
    /\ worker.pc = "test"
    /\ worker' = IF worker.stopped
                 THEN [worker EXCEPT !.pc = "stopping"]
                 ELSE [worker EXCEPT !.pc = "size",
                                     !.queue_size = 0, !.todo = 0, !.i = 0,
                                     !.task_num = 0, !.sizes = 0, !.deqs = 0,
                                     !.sleeps = 0, !.waited = 0]
    /\ UNCHANGED <<tvars, fvars, hvars, queue, threads, running, main>>

\* worker.py 45-49: queue_size = self.queue.length() and the range of the loop
Size ==
    /\ worker.pc = "size"
    /\ \E a \in SizeAnswers :
         LET queue_size == length(a, Cardinality(queue))
             w == [worker EXCEPT !.sizes = worker.sizes + 1,
                                 !.queue_size = queue_size,
                                 !.todo = batch(queue_size, TASK_BATCH_SIZE)]
         IN worker' = IF a = "denied"
                      THEN [worker EXCEPT !.pc = "dead", !.sizes = worker.sizes + 1]
                      ELSE [w EXCEPT !.pc = next_iteration(w)]
    /\ UNCHANGED <<tvars, fvars, hvars, queue, threads, running, main>>

\* the task the remote service hands out next: the one with the lowest id
Head_of(q) == CHOOSE t \in q : \A u \in q : t <= u

\* the remote service hands out a task while it has handed out fewer than
\* MaxThreads
MayGive == \E s \in Slots : threads[s].pc = "none"

\* worker.py 51-55: task = self.queue.dequeue_task(); an empty result goes
\* straight to the next iteration, a task is yielded to Worker.run
DequeueTask ==
    /\ worker.pc = "loop"
    /\ worker.i < worker.todo
    /\ \E a \in DequeueAnswers :
         LET w == [worker EXCEPT !.i = worker.i + 1, !.deqs = worker.deqs + 1,
                                 !.sleeps = 0]
         IN \/ /\ a = "task"
               /\ MayGive
               /\ queue # {}
               /\ LET t == Head_of(queue) IN
                    /\ queue' = queue \ {t}
                    /\ worker' = [w EXCEPT !.pc = "yielded",
                                           !.task = dequeue_task(QueuedTask(t)),
                                           !.task_num = worker.task_num + 1,
                                           !.made = worker.made + 1]
            \/ /\ a = "none"
               /\ worker' = [w EXCEPT !.pc = next_iteration(w),
                                      !.task = dequeue_task(NoTask)]
               /\ UNCHANGED queue
            \/ /\ a = "bad"
               /\ worker' = [w EXCEPT !.pc = next_iteration(w),
                                      !.task = dequeue_task(
                                          [QueuedTask(1) EXCEPT !.id = Absent])]
               /\ UNCHANGED queue
            \/ /\ a = "denied"
               /\ worker' = [w EXCEPT !.pc = "dead", !.task = NoTask]
               /\ UNCHANGED queue
    /\ UNCHANGED <<tvars, fvars, hvars, threads, running, main>>

\* the slot of the next TaskRunner thread
FreeSlot == CHOOSE s \in Slots :
               /\ threads[s].pc = "none"
               /\ \A q \in Slots : threads[q].pc = "none" => s <= q

\* worker.py 63-65: the body of Worker.run's for loop,
\* TaskRunner(self, task, task_num).start()
StartRunner_dropping ==
    /\ worker.pc = "yielded"
    /\ worker' = [worker EXCEPT !.pc = "throttle"]
    /\ UNCHANGED <<tvars, fvars, hvars, queue, threads, running, main>>

StartRunner ==
    /\ worker.pc = "yielded"
    /\ threads' = [threads EXCEPT ![FreeSlot] =
                     [NoThread EXCEPT !.pc = "started", !.task = worker.task,
                                      !.inst = worker.made]]
    /\ worker' = [worker EXCEPT !.pc = "throttle", !.task = NoTask]
    /\ UNCHANGED <<tvars, fvars, hvars, queue, running, main>>

\* worker.py 57: time.sleep(throttle), when the generator is resumed
Throttle ==
    /\ worker.pc = "throttle"
    /\ worker' = [[worker EXCEPT !.sleeps = worker.sleeps + 1]
                    EXCEPT !.pc = next_iteration(worker)]
    /\ UNCHANGED <<tvars, fvars, hvars, queue, threads, running, main>>

\* worker.py 66: self._stop_event.wait(self.wait_time), one tick of the wait
WaitTick_sleeping ==
    /\ worker.pc = "wait"
    /\ worker.waited < WaitTicks
    /\ worker' = [worker EXCEPT !.waited = worker.waited + 1]
    /\ UNCHANGED <<tvars, fvars, hvars, queue, threads, running, main>>

WaitTick ==
    /\ worker.pc = "wait"
    /\ ~worker.stopped
    /\ worker.waited < WaitTicks
    /\ worker' = [worker EXCEPT !.waited = worker.waited + 1]
    /\ UNCHANGED <<tvars, fvars, hvars, queue, threads, running, main>>

\* worker.py 66: the wait returns, on the event or on the timeout
WaitReturn_joining ==
    /\ worker.pc = "wait"
    /\ worker.stopped \/ worker.waited = WaitTicks
    /\ \A s \in Slots : threads[s].pc \in {"none", "done"}
    /\ worker' = [worker EXCEPT !.pc = "test", !.waited = 0]
    /\ UNCHANGED <<tvars, fvars, hvars, queue, threads, running, main>>

WaitReturn ==
    /\ worker.pc = "wait"
    /\ worker.stopped \/ worker.waited = WaitTicks
    /\ worker' = [worker EXCEPT !.pc = "test", !.waited = 0]
    /\ UNCHANGED <<tvars, fvars, hvars, queue, threads, running, main>>

\* threads.py 30-33: StoppableThread.stop() sets the thread's stop event
stop(w) == [w EXCEPT !.stopped = TRUE]

\* worker.py 292-294: some thread calls stop() on the Worker
Stop_cancelling ==
    /\ ~worker.stopped
    /\ worker' = stop(worker)
    /\ threads' = [s \in Slots |->
                     IF threads[s].pc \in {"none", "done"} THEN threads[s]
                     ELSE [threads[s] EXCEPT !.pc = "done"]]
    /\ UNCHANGED <<tvars, fvars, hvars, queue, running, main>>

Stop ==
    /\ ~worker.stopped
    /\ worker' = stop(worker)
    /\ UNCHANGED <<tvars, fvars, hvars, queue, threads, running, main>>

\* worker.py 67-68: log and stop_running()
Exit ==
    /\ worker.pc = "stopping"
    /\ worker' = [worker EXCEPT !.pc = "exited"]
    /\ running' = "false"
    /\ UNCHANGED <<tvars, fvars, hvars, queue, threads, main>>

\* ------------------------------------------------------- TaskRunner.run

\* worker.py 88-93 and 171-233: the thread runs, process_task gets to the
\* call of the worker function
RunnerCall(s) ==
    /\ threads[s].pc = "started"
    /\ threads' = [threads EXCEPT ![s].pc = "executing", ![s].calls = 1]
    /\ UNCHANGED <<tvars, fvars, hvars, worker, queue, running, main>>

\* worker.py 235-262: the worker function has returned or raised and the
\* task is saved
RunnerSave(s) ==
    /\ threads[s].pc = "executing"
    /\ threads' = [threads EXCEPT ![s].pc = "saved", ![s].saves = 1]
    /\ UNCHANGED <<tvars, fvars, hvars, worker, queue, running, main>>

\* worker.py 264-276 and 94-97: the requeue when it is due (the attempt failed
\* with retries left and a valid input), and the thread ends
RunnerEnd(s) ==
    /\ threads[s].pc = "saved"
    /\ \E due \in BOOLEAN :
         /\ threads' = [threads EXCEPT ![s].pc = "done",
                                       ![s].requeues = IF due THEN 1 ELSE 0]
         /\ queue' = IF due THEN queue \cup {threads[s].task.id} ELSE queue
    /\ UNCHANGED <<tvars, fvars, hvars, worker, running, main>>

\* ----------------------------------------------------------- run_workers

\* the value a config gives for a number, default when the key is missing
config_get(field, default) ==
    IF field.type = "absent" THEN NumField("int", default) ELSE field

\* validate_worker_config: "true", "false", or "raise" when a comparison of
\* a value that is no number with an int raises TypeError
validate_worker_config_lax(c) ==
    IF c.queue \in {AbsentS, ""} THEN "false" ELSE "true"

validate_worker_config(c) ==
    LET l == config_get(c.limit, TASK_RETRY_LIMIT)
        w == config_get(c.wait, WAIT_TIME)
    IN CASE c.queue \in {AbsentS, ""} -> "false"
         [] c.function \in {AbsentS, ""} -> "false"
         [] c.function = "unresolved" -> "false"
         [] l.type = "other" -> "raise"
         [] l.val > TASK_MAX_RETRY_LIMIT -> "false"
         [] w.type = "other" -> "raise"
         [] w.val < MIN_WAIT_TIME -> "false"
         [] OTHER -> "true"

\* create_workers: True when Worker(...) was created and started
create_workers(c) == c.creatable

\* worker.py 404-419: one iteration of the loop over worker_configs
LoadConfig ==
    /\ main.pc = "loop"
    /\ LET k == main.k
           c == main.configs[k]
           valid == validate_worker_config(c)
           m == [main EXCEPT !.k = k + 1,
                             !.pc = IF k = Len(main.configs) THEN "count" ELSE "loop"]
       IN main' =
            CASE valid = "raise" -> [main EXCEPT !.pc = "raised", !.ret = "raised"]
              [] valid = "false" -> [m EXCEPT !.rejected = main.rejected \cup {k}]
              [] OTHER ->
                   IF create_workers(c)
                   THEN [m EXCEPT !.spawned = main.spawned \cup {k},
                                  !.worker_count = main.worker_count + 1,
                                  !.handler = k]
                   ELSE [m EXCEPT !.handler = 0]
    /\ UNCHANGED <<tvars, fvars, hvars, worker, queue, threads, running>>

\* worker.py 421-437: the early return, or start_running(), the HealthCheck,
\* the FileWatcher and pause()
Supervise ==
    /\ main.pc = "count"
    /\ IF main.worker_count = 0
       THEN /\ main' = [main EXCEPT !.pc = "returned", !.ret = "2"]
            /\ UNCHANGED <<running, watcher, health>>
       ELSE /\ main' = [main EXCEPT !.pc = "pause", !.healthcheck = TRUE,
                                    !.watcher = main.autorestart]
            /\ running' = "true"
            /\ health' = HealthCheck
            /\ watcher' = IF main.autorestart THEN FileWatcher(time) ELSE watcher
    /\ UNCHANGED <<tvars, file, time, worker, queue, threads, client, request>>

\* worker.py 292-294: the handler that create_workers installed for config h
\* (0: its worker_thread is still None) calls stop() on that Worker only
signal_handler(h) == IF h # 0 THEN {Unit("worker", h)} ELSE {}

\* worker.py 292-297, 398, 439-441: SIGINT or SIGTERM: the handler installed by
\* the latest create_workers call stops its Worker, if that call created one;
\* a pause() in progress returns and run_workers returns 0
Signal ==
    /\ main.pc \in {"loop", "count", "pause"}
    /\ ~main.signalled
    /\ LET m == [main EXCEPT !.signalled = TRUE,
                              !.stops = signal_handler(main.handler)]
       IN main' = IF main.pc = "pause"
                  THEN [m EXCEPT !.pc = "returned", !.ret = "0"]
                  ELSE m
    /\ worker' = IF main.handler # 0 THEN stop(worker) ELSE worker
    /\ UNCHANGED <<tvars, fvars, hvars, queue, threads, running>>

\* ----------------------------------------------------------- FileWatcher

\* FileWatcher.elapsed_time()
elapsed_time(w) == time - w.start_time

\* FileWatcher.has_changed(): the answer and the FileWatcher after it
has_changed_forgetting(w) ==
    [ret |-> w.last_modified # file.mtime \/ w.last_checksum # file.checksum,
     w |-> [w EXCEPT !.seen = w.seen \cup {file.version}]]

has_changed(w) ==
    IF w.last_modified # file.mtime \/ w.last_checksum # file.checksum
    THEN [ret |-> TRUE,
          w |-> [w EXCEPT !.last_modified = file.mtime,
                          !.last_checksum = file.checksum,
                          !.seen = w.seen \cup {file.version}]]
    ELSE [ret |-> FALSE, w |-> w]

\* worker.py 316-324: restart_all(): os.execv replaces the process, or raises
\* and the error is logged
restart_all(w, replaced) ==
    [w EXCEPT !.callbacks = w.callbacks + 1,
              !.pc = IF replaced THEN "replaced" ELSE "sleep"]

\* threads.py 81-87: run() up to its loop; the file can be removed between
\* os.path.exists and os.path.getmtime, which then raises
FwRun ==
    /\ watcher.pc = "started"
    /\ \/ /\ file.exists
          /\ watcher' = [watcher EXCEPT !.pc = "sleep",
                                        !.running = TRUE,
                                        !.last_modified = file.mtime,
                                        !.last_checksum = file.checksum]
          /\ UNCHANGED file
       \/ /\ file.exists
          /\ file.version < MaxEdits
          /\ watcher' = [watcher EXCEPT !.pc = "dead"]
          /\ file' = [file EXCEPT !.exists = FALSE, !.version = file.version + 1]
       \/ /\ ~file.exists
          /\ watcher' = [watcher EXCEPT !.pc = "sleep", !.running = TRUE]
          /\ UNCHANGED file
    /\ UNCHANGED <<tvars, hvars, worker, queue, threads, running, main, time>>

\* threads.py 89-90: the loop test, and time.sleep(wait_time) when it passes
FwWake ==
    /\ watcher.pc = "sleep"
    /\ watcher' = [watcher EXCEPT !.pc = IF watcher.running THEN "check" ELSE "exited"]
    /\ UNCHANGED <<tvars, hvars, worker, queue, threads, running, main, file, time>>

\* threads.py 91-101: one look at the file, with the sleep of 300 seconds
\* when it is missing
FwPoll ==
    /\ watcher.pc = "check"
    /\ watcher.callbacks < MaxCallbacks
    /\ \/ /\ file.exists
          /\ LET h == has_changed(watcher)
             IN IF h.ret
                THEN \E replaced \in BOOLEAN : watcher' = restart_all(h.w, replaced)
                ELSE IF elapsed_time(watcher) >= HOURS_12
                THEN \E replaced \in BOOLEAN : watcher' = restart_all(h.w, replaced)
                ELSE watcher' = [h.w EXCEPT !.pc = "sleep"]
          /\ UNCHANGED file
       \/ /\ file.exists
          /\ file.version < MaxEdits
          /\ watcher' = [watcher EXCEPT !.pc = "dead"]
          /\ file' = [file EXCEPT !.exists = FALSE, !.version = file.version + 1]
       \/ /\ ~file.exists
          /\ watcher' = [watcher EXCEPT !.pc = "sleep"]
          /\ UNCHANGED file
    /\ UNCHANGED <<tvars, hvars, worker, queue, threads, running, main, time>>

\* threads.py 103-105: FileWatcher.stop() clears the running event
FwStop(w) == [w EXCEPT !.running = FALSE, !.stopped = TRUE]

\* some thread calls stop() on the FileWatcher, before or after run() began
StopWatcher ==
    /\ watcher.pc \in {"started", "sleep", "check"}
    /\ ~watcher.stopped
    /\ watcher' = FwStop(watcher)
    /\ UNCHANGED <<tvars, hvars, worker, queue, threads, running, main, file, time>>

\* the states an editor, a deployment or rm can leave the file in
FileStates ==
    [exists : BOOLEAN, mtime : 1 .. 2, checksum : 1 .. 2, version : 0 .. MaxEdits]

\* the config file is written, touched, removed or created
FileChange ==
    /\ file.version < MaxEdits
    /\ \E f \in FileStates :
         /\ f.version = file.version + 1
         /\ f.exists \/ file.exists
         /\ <<f.exists, f.mtime, f.checksum>> # <<file.exists, file.mtime, file.checksum>>
         /\ ~f.exists => f.mtime = file.mtime /\ f.checksum = file.checksum
         /\ file' = f
    /\ UNCHANGED <<tvars, hvars, worker, queue, threads, running, main, watcher, time>>

\* time passes while the FileWatcher sleeps or before it is created
Tick ==
    /\ time < MaxTime
    /\ watcher.pc \in {"none", "sleep"}
    /\ time' = time + 1
    /\ UNCHANGED <<tvars, hvars, worker, queue, threads, running, main, watcher, file>>

\* ----------------------------------------------------------- HealthCheck

\* threads.py 121-123: run() up to its loop
HcRun ==
    /\ health.pc = "started"
    /\ health' = [health EXCEPT !.pc = "test"]
    /\ UNCHANGED <<tvars, fvars, worker, queue, threads, running, main, client, request>>

\* threads.py 124: while not self.stopped()
HcTest ==
    /\ health.pc = "test"
    /\ health' = [health EXCEPT !.pc = IF health.stopped THEN "exited" ELSE "sample"]
    /\ UNCHANGED <<tvars, fvars, worker, queue, threads, running, main, client, request>>

\* threads.py 125-137: the sample, which blocks for wait_time, and the log line
HcSample ==
    /\ health.pc = "sample"
    /\ health' = [health EXCEPT !.pc = "test"]
    /\ UNCHANGED <<tvars, fvars, worker, queue, threads, running, main, client, request>>

\* some thread calls stop() on the HealthCheck, before or after run() began
StopHealth ==
    /\ health.pc \in {"started", "test", "sample"}
    /\ ~health.stopped
    /\ health' = stop(health)
    /\ UNCHANGED <<tvars, fvars, worker, queue, threads, running, main, client, request>>

\* ------------------------------------------------ SubforkHttpClient._request

\* how a request ends: a response with a JSON body, one whose body is no
\* JSON, HTTP 500, HTTP 401/402/403, another error status, or no connection
Responses == {"ok", "bad_body", "500", "denied", "status", "unreachable"}

\* client.py 124-133: the checks of the data; past them last_request_ts is
\* assigned and the request is posted
RequestPost(u) ==
    /\ request[u].pc = "idle"
    /\ \/ /\ request' = [request EXCEPT ![u] = [pc |-> "idle", ret |-> "empty"]]
          /\ UNCHANGED <<client, clock>>
       \/ \E now \in clock .. MaxClock :
            /\ clock' = now
            /\ client' = [client EXCEPT !.last_request_ts = now,
                                        !.writers = client.writers \cup {u}]
            /\ request' = [request EXCEPT ![u] = [pc |-> "posted", ret |-> "none"]]
    /\ UNCHANGED <<limit, remote, queued, runner, execs, requeued,
                   poller, ctask, api, waiter>>
    /\ UNCHANGED <<worker, queue, threads, running, main, fvars, health>>

\* client.py 155-163 and 177-201: handle_response and the except clauses
RequestEnd(u) ==
    /\ request[u].pc = "posted"
    /\ \E a \in Responses :
         /\ request' = [request EXCEPT ![u] =
               [pc |-> "idle",
                ret |-> CASE a = "ok" -> "data"
                          [] a = "denied" -> "raised"
                          [] OTHER -> "null"]]
         /\ client' =
               CASE a = "ok" /\ client.last_error # NullS ->
                      [client EXCEPT !.last_error = NullS,
                                     !.writers = client.writers \cup {u}]
                 [] a = "unreachable" ->
                      [client EXCEPT !.last_error = "error",
                                     !.writers = client.writers \cup {u}]
                 [] OTHER -> client
    /\ UNCHANGED <<limit, clock, remote, queued, runner, execs, requeued,
                   poller, ctask, api, waiter>>
    /\ UNCHANGED <<worker, queue, threads, running, main, fvars, health>>

\* ------------------------------------------------------- specifications

\* the worker: one Worker thread, its TaskRunners, the remote service
Next ==
    \/ Dequeue
    \/ Spawn
    \/ DirectCall
    \/ \E r \in Runners : Begin(r)
    \/ \E r \in Runners : Invoke(r)
    \/ \E r \in Runners : Finish(r)
    \/ \E r \in Runners : Finalize(r)
    \/ \E r \in Runners : Requeue(r)
    \/ \E r \in Runners : Release(r)

Spec == Init /\ [][Next]_vars

\* the worker against a remote service that stores every task/save it is sent
NextStoring ==
    \/ Dequeue
    \/ Spawn
    \/ \E r \in Runners : Begin(r)
    \/ \E r \in Runners : Invoke(r)
    \/ \E r \in Runners : Finish(r)
    \/ \E r \in Runners : FinalizeWith(r, {"stored", "stored_bad"})
    \/ \E r \in Runners : Requeue(r)
    \/ \E r \in Runners : Release(r)

SpecStoring == Init /\ [][NextStoring]_vars

\* client code using the Task and Queue API
NextApi ==
    \/ ClientGet
    \/ ClientUpdate
    \/ ClientSave

\* the API does not read the worker's limit: config.TASK_RETRY_LIMIT's default
InitApi == Init /\ limit = 2

SpecApi == InitApi /\ [][NextApi]_vars

\* the statements of Worker.run
WorkerStep ==
    \/ LoopTest
    \/ Size
    \/ DequeueTask
    \/ StartRunner
    \/ Throttle
    \/ WaitTick
    \/ WaitReturn
    \/ Exit

\* the statements of the TaskRunner thread in slot s
RunnerStep(s) == RunnerCall(s) \/ RunnerSave(s) \/ RunnerEnd(s)

\* one Worker thread polling its queue, the TaskRunner threads it starts and
\* the main thread from the end of run_workers' loop
NextWorker ==
    \/ LoopTest
    \/ Size
    \/ DequeueTask
    \/ StartRunner
    \/ Throttle
    \/ WaitTick
    \/ WaitReturn
    \/ Exit
    \/ \E s \in Slots : RunnerCall(s)
    \/ \E s \in Slots : RunnerSave(s)
    \/ \E s \in Slots : RunnerEnd(s)
    \/ Stop
    \/ Supervise

\* no task is being processed and no Worker polls yet
InitIdle ==
    /\ limit = TASK_RETRY_LIMIT
    /\ clock = 0
    /\ remote = [t \in TaskIds |-> NewTask(t, "dict_ok", Absent, "small")]
    /\ queued = TaskIds
    /\ runner = [r \in Runners |-> IdleRunner]
    /\ execs = [t \in TaskIds |-> 0]
    /\ requeued = [t \in TaskIds |-> 0]
    /\ poller = [pc |-> "poll", answer |-> "none", task |-> NoTask]
    /\ ctask = NoTask
    /\ api = NoCall
    /\ waiter = NoWait
    /\ worker = NewWorker
    /\ threads = [s \in Slots |-> NoThread]
    /\ running = "unset"
    /\ watcher = NoWatcher
    /\ file = NewFile(TRUE)
    /\ time = 0
    /\ health = NoHealth
    /\ client = NewClient
    /\ request = [u \in Callers |-> NoRequest]

\* run_workers has started one Worker from one valid config
InitWorker ==
    /\ InitIdle
    /\ queue = PollTasks
    /\ main = [NewMain(<<ValidConfig>>, TRUE) EXCEPT
                   !.pc = "count", !.k = 2, !.worker_count = 1,
                   !.spawned = {1}, !.handler = 1]

SpecWorker == InitWorker /\ [][NextWorker]_vars

\* the Worker thread is scheduled again and again; its requests and sleeps end
SpecWorkerFair == SpecWorker /\ WF_vars(WorkerStep)

\* the Worker thread of InitWorker with RunnerTasks tasks on its queue
InitRunners ==
    /\ InitIdle
    /\ queue = 1 .. RunnerTasks
    /\ main = [NewMain(<<ValidConfig>>, TRUE) EXCEPT
                   !.pc = "count", !.k = 2, !.worker_count = 1,
                   !.spawned = {1}, !.handler = 1]

\* every TaskRunner thread is scheduled and its worker function returns
SpecRunnersFair ==
    InitRunners /\ [][NextWorker]_vars /\ \A s \in Slots : WF_vars(RunnerStep(s))

\* sequences of at most n worker configs
ConfigSeqs(n) == UNION {[1 .. m -> WorkerConfigs] : m \in 0 .. n}

\* run_workers called with any worker configs
InitMain ==
    /\ InitIdle
    /\ queue = {}
    /\ \E cfgs \in ConfigSeqs(NumConfigs), auto \in BOOLEAN :
         main = NewMain(cfgs, auto)

NextMain ==
    \/ LoadConfig
    \/ Supervise
    \/ Signal

SpecMain == InitMain /\ [][NextMain]_vars

\* task records in every state of completed, error and exitcode: missing,
\* None where the service sends it, or a value
DoneTasks ==
    {[NewTask(t, "dict_ok", f, "small") EXCEPT
          !.completed = c, !.error = e, !.exitcode = x] :
        t \in TaskIds, f \in {Absent} \cup (0 .. MaxFailures),
        c \in {Absent, 0, 1}, e \in {AbsentS, NullS, "", "boom"},
        x \in {Absent, 0, 1}}

\* client code holds a Task in any of these states
InitDone ==
    /\ limit = TASK_RETRY_LIMIT
    /\ clock = 0
    /\ remote = [t \in TaskIds |-> NewTask(t, "dict_ok", Absent, "small")]
    /\ queued = TaskIds
    /\ runner = [r \in Runners |-> IdleRunner]
    /\ execs = [t \in TaskIds |-> 0]
    /\ requeued = [t \in TaskIds |-> 0]
    /\ poller = [pc |-> "poll", answer |-> "none", task |-> NoTask]
    /\ ctask \in DoneTasks
    /\ api = NoCall
    /\ waiter = NoWait
    /\ worker = NewWorker
    /\ queue = {}
    /\ threads = [s \in Slots |-> NoThread]
    /\ running = "unset"
    /\ main = NewMain(<< >>, FALSE)
    /\ watcher = NoWatcher
    /\ file = NewFile(TRUE)
    /\ time = 0
    /\ health = NoHealth
    /\ client = NewClient
    /\ request = [u \in Callers |-> NoRequest]

\* client code that asks its Task whether it is done
SpecDone == InitDone /\ [][ClientIsDone]_vars

\* the statements of Task.wait
WaitStep == WaitTest \/ WaitSync

\* worker.py 187-260 as the client of the service sees it: a worker elsewhere
\* processes the task, or processes it again after a requeue, and its final
\* task/save request stores the record; nothing else changes the record
WorkerSaves ==
    /\ \E t \in TaskIds, success \in BOOLEAN :
         LET d == update(remote[t], [started |-> 0])
             me == [IdleRunner EXCEPT !.task = d,
                                      !.num_failures = get_num_failures(d)]
             end == IF success THEN me ELSE Failed(me, "boom")
         IN /\ remote[t].exitcode # 0
            /\ ~exceeded(me.num_failures, limit)
            /\ me.num_failures < MaxFailures
            /\ remote' = [remote EXCEPT ![t] = update(d, FinalState(end, 0))]
    /\ UNCHANGED <<wvars, waiter, limit, clock, queued, runner, execs, requeued,
                   poller, ctask, api>>

\* client code that waits for a task it created while a worker processes it
NextWait ==
    \/ WorkerSaves
    \/ WaitCall
    \/ WaitTest
    \/ WaitSync

\* the client holds the Task that Queue.create_task or Queue.get_task returned
InitWait ==
    /\ limit = TASK_RETRY_LIMIT
    /\ clock = 0
    /\ remote = [t \in TaskIds |-> NewTask(t, "dict_ok", Absent, "small")]
    /\ queued = TaskIds
    /\ runner = [r \in Runners |-> IdleRunner]
    /\ execs = [t \in TaskIds |-> 0]
    /\ requeued = [t \in TaskIds |-> 0]
    /\ poller = [pc |-> "poll", answer |-> "none", task |-> NoTask]
    /\ \E t \in TaskIds : ctask = remote[t]
    /\ api = NoCall
    /\ waiter = NoWait
    /\ worker = NewWorker
    /\ queue = {}
    /\ threads = [s \in Slots |-> NoThread]
    /\ running = "unset"
    /\ main = NewMain(<< >>, FALSE)
    /\ watcher = NoWatcher
    /\ file = NewFile(TRUE)
    /\ time = 0
    /\ health = NoHealth
    /\ client = NewClient
    /\ request = [u \in Callers |-> NoRequest]

SpecWait == InitWait /\ [][NextWait]_vars

\* the thread that called Task.wait is scheduled again and again
SpecWaitFair == SpecWait /\ WF_vars(WaitStep)

\* the statements of FileWatcher.run
WatcherStep == FwRun \/ FwWake \/ FwPoll

\* run_workers from the end of its loop, with its FileWatcher and the file
NextWatcher ==
    \/ Supervise
    \/ FwRun
    \/ FwWake
    \/ FwPoll
    \/ FileChange
    \/ Tick

\* run_workers has started one Worker; the config file exists or does not
InitWatcher ==
    /\ limit = TASK_RETRY_LIMIT
    /\ clock = 0
    /\ remote = [t \in TaskIds |-> NewTask(t, "dict_ok", Absent, "small")]
    /\ queued = TaskIds
    /\ runner = [r \in Runners |-> IdleRunner]
    /\ execs = [t \in TaskIds |-> 0]
    /\ requeued = [t \in TaskIds |-> 0]
    /\ poller = [pc |-> "poll", answer |-> "none", task |-> NoTask]
    /\ ctask = NoTask
    /\ api = NoCall
    /\ waiter = NoWait
    /\ worker = NewWorker
    /\ threads = [s \in Slots |-> NoThread]
    /\ running = "unset"
    /\ queue = {}
    /\ watcher = NoWatcher
    /\ time = 0
    /\ health = NoHealth
    /\ client = NewClient
    /\ request = [u \in Callers |-> NoRequest]
    /\ \E exists \in BOOLEAN : file = NewFile(exists)
    /\ \E auto \in BOOLEAN :
         main = [NewMain(<<ValidConfig>>, auto) EXCEPT
                     !.pc = "count", !.k = 2, !.worker_count = 1,
                     !.spawned = {1}, !.handler = 1]

SpecWatcher == InitWatcher /\ [][NextWatcher]_vars

\* the statements of HealthCheck.run
HcStep == HcRun \/ HcTest \/ HcSample

\* run_workers from the end of its loop, its HealthCheck and its FileWatcher,
\* and code that calls stop() on them
NextStop ==
    \/ Supervise
    \/ FwRun
    \/ FwWake
    \/ FwPoll
    \/ FileChange
    \/ Tick
    \/ StopWatcher
    \/ HcRun
    \/ HcTest
    \/ HcSample
    \/ StopHealth

SpecStop == InitWatcher /\ [][NextStop]_vars

\* both threads are scheduled again and again; their sleeps and samples end
SpecStopFair == SpecStop /\ WF_vars(WatcherStep) /\ WF_vars(HcStep)

\* the Worker and its TaskRunners making requests through the one client
NextClient ==
    \/ \E u \in Callers : RequestPost(u)
    \/ \E u \in Callers : RequestEnd(u)

\* the client as Subfork.__init__ leaves it, no request in progress
InitClient ==
    /\ InitIdle
    /\ queue = {}
    /\ main = NewMain(<< >>, FALSE)

SpecClient == InitClient /\ [][NextClient]_vars

\* ------------------------------------------------------------ properties

Max(a, b) == IF a >= b THEN a ELSE b

\* the process_task call of runner r has got past its entry checks
Entered(me) ==
    \/ me.pc \in {"ready", "running", "finally", "saved"}
    \/ me.pc = "done" /\ me.ret # "none"

\* the worker function was called and raised an Exception
Raised(me) == me.calls = 1 /\ me.success = "false"

\* the worker function was called and returned
Returned(me) == me.calls = 1 /\ me.success = "true"

\* C1: a task whose failures count is greater than the worker's limit when
\* process_task is called never has the worker function invoked, and no
\* task/save and no task/requeue request is issued for it.
C1_OverLimitIsNoop ==
    \A r \in Runners :
        LET me == runner[r] IN
        (me.pc # "idle" /\ ~me.given.none /\ get_num_failures(me.given) > limit)
            => (me.calls = 0 /\ me.saves = 0 /\ me.requeues = 0)

\* C2: when the worker function raised and the incremented failures count is
\* >= limit or the input shape was invalid, process_task issues no task/requeue
\* request and returns exit code 1.
C2_TerminalFailure ==
    \A r \in Runners :
        LET me == runner[r] IN
        (me.pc = "done" /\ Raised(me)
            /\ (me.num_failures >= limit \/ me.input_is_valid # "true"))
            => (me.requeues = 0 /\ me.ret = "1")

C4_FailureRecorded ==
    \A r \in Runners :
        LET me == runner[r] IN
        /\ (Raised(me) /\ me.saves >= 1)
              => /\ me.sent.error = "boom"
                 /\ me.sent.exitcode = 1
                 /\ me.sent.failures = get_num_failures(me.given) + 1
        /\ (me.pc = "done" /\ Raised(me) /\ limit = 2
                /\ get_num_failures(me.given) = 0 /\ me.input_is_valid = "true")
              => me.requeues = 1

\* C5: whenever the worker function returns normally, the task state sent in
\* the final save has exitcode = 0, error null, the failures count of the
\* dispatch, and completed >= started with elapsed_time = completed - started.
C5_SuccessRecorded ==
    \A r \in Runners :
        LET me == runner[r] IN
        (Returned(me) /\ me.saves >= 1)
            => /\ me.sent.exitcode = 0
               /\ me.sent.error = NullS
               /\ me.sent.failures = get_num_failures(me.given)
               /\ me.sent.started # Absent
               /\ me.sent.completed >= me.sent.started
               /\ me.sent.elapsed_time = me.sent.completed - me.sent.started
               /\ me.sent.elapsed_time >= 0

C5_Witness ==
    \E r \in Runners :
        LET me == runner[r] IN
        /\ Returned(me) /\ me.saves = 1
        /\ me.sent.completed > me.sent.started
        /\ get_num_failures(me.given) > 0

\* C6: every process_task call that passes the entry checks issues exactly one
\* task/save request, whatever the worker function returned or raised, after
\* the worker function has ended and before any task/requeue request.
C6_ExactlyOneSave ==
    \A r \in Runners :
        LET me == runner[r] IN
        /\ me.saves <= 1
        /\ me.saves = 1 => me.pc \in {"saved", "done"}
        /\ me.requeues >= 1 => me.saves = 1
        /\ (me.pc = "done" /\ Entered(me)) => me.saves = 1

\* C7: against a remote queue that stores every save and redelivers a task only
\* after a requeue request, the worker function is executed at most
\* max(1, limit) times for one task and at most limit - 1 requeue requests
\* (none when limit <= 1) are issued for it.
C7_BoundedRetries ==
    \A t \in TaskIds :
        /\ execs[t] <= Max(1, limit)
        /\ requeued[t] <= Max(0, limit - 1)

\* C8: process_task on a null task or on a task failing is_valid() returns at
\* once with no side effect: no worker function call, no change of the task
\* record, no save or requeue request; and a dequeue response that is not a
\* valid task record is never handed to a runner.
C8_InvalidIsDropped ==
    /\ \A r \in Runners :
          LET me == runner[r] IN
          /\ (me.pc # "idle" /\ (me.given.none \/ ~is_valid_task(me.given)))
                => /\ me.pc \in {"start", "done"}
                   /\ me.pc = "done" => me.ret = "none"
                   /\ me.calls = 0 /\ me.saves = 0 /\ me.requeues = 0
                   /\ me.task = me.given
          /\ me.origin = "dequeue" => is_valid_task(me.given)
    /\ (poller.pc = "got" /\ poller.answer \in {"none", "bad"}) => poller.task.none

C8_Witness ==
    /\ \E r \in Runners :
          LET me == runner[r] IN
          /\ me.pc = "done" /\ me.origin = "direct"
          /\ ~me.given.none /\ ~is_valid_task(me.given)
    /\ poller.pc = "got" /\ poller.answer = "bad"

\* C9: Task.save() on an invalid task issues no task/save request and returns
\* False; on a valid task it issues exactly one task/save request carrying the
\* full task data and returns a Task when the response is a valid task record,
\* otherwise a falsy value without raising; the local data is never changed.
C9_SaveContract ==
    api.op = "save"
        => /\ ctask = api.before
           /\ ~is_valid_task(api.before) => (api.reqs = 0 /\ api.ret = "false")
           /\ is_valid_task(api.before)
                => /\ api.reqs = 1 /\ api.sent = api.before
                   /\ api.answer = "stored" => api.ret = "task"
                   /\ api.answer # "stored" => api.ret = "false"

\* C10: Task.update without save=True changes only the local record and issues
\* no request; the remote copy of a task changes only in a step that issues a
\* task/save request, so the started stamp of process_task is not in the
\* remote copy before the final save.
C10_Step ==
    /\ remote' # remote
          => \E r \in Runners : runner'[r].saves = runner[r].saves + 1
    /\ \A r \in Runners :
          (runner[r].pc \in {"start", "ready"} /\ runner'[r].pc # runner[r].pc)
             => /\ remote' = remote
                /\ runner'[r].saves = runner[r].saves
                /\ runner'[r].requeues = runner[r].requeues
                /\ queued' = queued
    /\ \A r \in Runners :
          (runner'[r].origin = "dequeue"
              /\ runner'[r].pc \in {"ready", "running", "finally"})
             => /\ runner'[r].task.started # Absent
                /\ remote'[runner'[r].task.id] = runner'[r].given

C10_LocalUntilSave == [][C10_Step]_vars

C10_Witness ==
    \E r \in Runners :
        LET me == runner[r] IN
        /\ me.pc = "finally" /\ me.origin = "dequeue"
        /\ me.task.started # Absent /\ me.task.func = "set"
        /\ remote[me.task.id].started = Absent
        /\ remote[me.task.id].func = AbsentS

\* ------------------------------------------- properties of Worker.run

\* the TaskRunner threads that were started
Started_threads == {s \in Slots : threads[s].pc # "none"}

\* the TaskRunner threads that have not ended
Live_threads == {s \in Slots : threads[s].pc \in {"started", "executing", "saved"}}

\* the threads started in earlier polling cycles than the current one: slots
\* are filled in order, task_num counts the tasks yielded in this cycle
Earlier_threads == {s \in Slots : s <= worker.made - worker.task_num}

\* C11: in each polling cycle the poller queries the queue length once and
\* then issues exactly min(queue_length, batch_size) task/dequeue requests
\* (none when the length is 0 or malformed), and it never dispatches more
\* than batch_size tasks in one cycle.
C11_BatchPerCycle ==
    /\ worker.sizes <= 1
    /\ worker.task_num <= TASK_BATCH_SIZE
    /\ worker.deqs <= Min(worker.queue_size, TASK_BATCH_SIZE)
    /\ worker.pc \in {"wait", "dead"} =>
         /\ worker.sizes = 1
         /\ worker.deqs = Min(worker.queue_size, TASK_BATCH_SIZE)

\* C12: within one polling cycle, between any two consecutive task/dequeue
\* requests the poller sleeps one throttle interval, also when the earlier
\* request returned an empty result.
C12_ThrottleBetweenDequeues ==
    [][(worker'.deqs = worker.deqs + 1 /\ worker.deqs >= 1) => worker.sleeps = 1]_vars

\* C13: every non-empty dequeue result is handed to exactly one newly started
\* TaskRunner at once, before the throttle sleep and the next dequeue request;
\* an empty result starts no runner; no task instance is owned by two runners
\* and no runner processes more than one task.
C13_Step ==
    /\ (worker.pc = "yielded" /\ worker'.pc # "yielded") =>
         /\ ~worker.task.none
         /\ worker'.sleeps = worker.sleeps
         /\ worker'.deqs = worker.deqs
         /\ \E s \in Slots :
              /\ threads[s].pc = "none"
              /\ threads'[s].pc = "started"
              /\ threads'[s].task = worker.task
              /\ threads'[s].inst = worker.made
              /\ \A q \in Slots \ {s} : threads'[q] = threads[q]
    /\ \A s \in Slots :
         /\ (threads[s].pc = "none" /\ threads'[s].pc # "none") =>
               worker.pc = "yielded"
         /\ threads[s].pc # "none" =>
               /\ threads'[s].task = threads[s].task
               /\ threads'[s].inst = threads[s].inst
               /\ threads'[s].pc # "none"

C13_OneRunnerPerTask ==
    /\ [](/\ \A s, q \in Started_threads : s # q => threads[s].inst # threads[q].inst
          /\ \A s \in Slots : threads[s].calls <= 1
          /\ Cardinality(Started_threads) =
                worker.made - (IF worker.pc = "yielded" THEN 1 ELSE 0))
    /\ [][C13_Step]_vars

C13_Witness ==
    /\ worker.pc = "throttle"
    /\ threads[2].pc = "started"
    /\ threads[1].pc = "executing"
    /\ threads[1].task.id # threads[2].task.id

\* C14: the poller begins its next polling cycle without waiting for the
\* runners it dispatched: a runner whose function never returns does not
\* keep the poller from polling again.
C14_PollsAgain ==
    []<>(worker.pc = "size" \/ worker.stopped \/ Terminated(worker))

\* a runner of an earlier cycle is still executing while this cycle has
\* issued a dequeue request and goes on to the next
C14_Witness ==
    /\ \E s \in Earlier_threads : threads[s].pc = "executing"
    /\ worker.pc = "loop"
    /\ worker.deqs = 1
    /\ worker.i < worker.todo

\* C15 (as stated): after stop() a wait in progress returns at once, no
\* further queue/size request is issued, and the loop eventually exits.
C15_NoSizeAfterStop ==
    /\ [][/\ (worker.stopped /\ worker.pc = "wait") => worker'.waited <= worker.waited
          /\ worker.stopped => ~(worker.pc = "size" /\ worker'.pc # "size")]_vars
    /\ <>[](worker.stopped => Terminated(worker))

\* C15 (amended): after stop() a wait in progress returns at once, the loop
\* test never passes again, so the only queue/size request that can follow
\* is that of a cycle whose loop test had passed before stop(), and the loop
\* eventually exits.
C15_NoCycleAfterStop ==
    /\ [][/\ (worker.stopped /\ worker.pc = "wait") =>
               (worker'.waited <= worker.waited /\ worker'.pc \in {"wait", "test"})
          /\ (worker.stopped /\ worker.pc = "test") => worker'.pc # "size"]_vars
    /\ <>[](worker.stopped => Terminated(worker))

\* stop() has arrived during a wait that had not lasted wait_time
C15_Witness ==
    /\ worker.stopped
    /\ worker.pc = "wait"
    /\ worker.waited < WaitTicks

C17_TerminatedNotRunning ==
    Terminated(worker) => running = "false"

\* ------------------------------------------- properties of run_workers

\* config k passes every check of the worker config invariant
Acceptable(c) ==
    LET l == config_get(c.limit, TASK_RETRY_LIMIT)
        w == config_get(c.wait, WAIT_TIME)
    IN /\ c.queue \notin {AbsentS, ""}
       /\ c.function = "ok"
       /\ l.type = "int" /\ l.val <= TASK_MAX_RETRY_LIMIT
       /\ w.type = "int" /\ w.val >= MIN_WAIT_TIME

\* run_workers has left its loop over the configs
LoopOver == main.pc # "loop"

\* C18: a config that fails validation, or whose poller cannot be created,
\* starts no poller and never keeps a valid config before or after it from
\* getting exactly one Worker poller.
C18_ConfigsIndependent ==
    LoopOver =>
      \A k \in 1 .. Len(main.configs) :
        k \in main.spawned <=>
          (Acceptable(main.configs[k]) /\ main.configs[k].creatable)

\* C19: if no Worker poller starts, run_workers returns a non-zero exit code
\* without starting the HealthCheck, the FileWatcher or the signal wait and
\* without setting the running flag to true.
C19_NoWorkersNoThreads ==
    (main.pc \in {"returned", "raised"} /\ main.worker_count = 0) =>
      /\ main.ret = "2"
      /\ ~main.healthcheck
      /\ ~main.watcher
      /\ running # "true"

\* C20: every Worker poller spawned by run_workers comes from a config with a
\* non-empty queue, a function that resolves, limit <= 3 and wait >= 30; a
\* config violating any of these is rejected before a poller is spawned for it.
C20_SpawnedAreValid ==
    /\ \A k \in main.spawned : Acceptable(main.configs[k])
    /\ main.spawned \cap main.rejected = {}
    /\ \A k \in 1 .. (main.k - 1) :
         ~Acceptable(main.configs[k]) => k \notin main.spawned

\* one config was rejected and another got its poller
C20_Witness ==
    /\ main.pc = "pause"
    /\ main.spawned # {}
    /\ main.rejected # {}
\* the threads run_workers has started
Spawned_units ==
    {Unit("worker", k) : k \in main.spawned}
    \cup (IF main.healthcheck THEN {Unit("healthcheck", 0)} ELSE {})
    \cup (IF main.watcher THEN {Unit("watcher", 0)} ELSE {})

\* C21: when a SIGINT or SIGTERM ends the pause of run_workers, which has
\* started at least one Worker, stop() has been called on every thread that
\* run_workers started: every Worker, the HealthCheck and the FileWatcher
C21_SignalStopsAll ==
    (main.ret = "0" /\ main.worker_count >= 1) => main.stops = Spawned_units

\* the part of C21 the code keeps: the Worker of the latest config that got
\* one is stopped
C21_LatestStopped ==
    (main.ret = "0" /\ main.handler # 0) =>
        Unit("worker", main.handler) \in main.stops

\* the file differs from what the FileWatcher recorded of it
Differs(w) ==
    file.exists /\ (w.last_modified # file.mtime \/ w.last_checksum # file.checksum)

\* C22 for one look of the FileWatcher at the file
C22_Step ==
    (watcher.pc = "check" /\ watcher' # watcher) =>
        /\ (Differs(watcher) /\ watcher'.pc # "dead") =>
               /\ watcher'.callbacks = watcher.callbacks + 1
               /\ file.version \notin watcher.seen
        /\ (~Differs(watcher) /\ elapsed_time(watcher) < HOURS_12) =>
               watcher'.callbacks = watcher.callbacks

\* C22: with autorestart on, each change of the config file's mtime or
\* checksum that the FileWatcher observes makes it call restart_all exactly
\* once for that change, and it never calls it while nothing changed and
\* fewer than 12 hours have elapsed; with autorestart off no FileWatcher is
\* started and restart_all is never called
C22_RestartPerChange ==
    /\ [][C22_Step]_vars
    /\ [][watcher'.callbacks # watcher.callbacks => watcher.pc = "check"]_vars
    /\ [](~main.autorestart => watcher.pc = "none" /\ watcher.callbacks = 0)

\* a change was answered by one restart_all call whose os.execv failed, and
\* the FileWatcher looks again at the unchanged file before 12 hours elapsed
C22_Witness ==
    /\ main.autorestart
    /\ watcher.pc = "check"
    /\ file.version > 0
    /\ file.version \in watcher.seen
    /\ ~Differs(watcher)
    /\ watcher.callbacks = 1
    /\ elapsed_time(watcher) < HOURS_12

\* C23: a look of the FileWatcher at the file when 12 hours have elapsed
\* since it was created calls restart_all, whether the file changed or not
\* and whatever state the file is in
C23_RestartAfter12Hours ==
    [][(watcher.pc = "check" /\ watcher' # watcher
            /\ elapsed_time(watcher) >= HOURS_12) =>
        watcher'.callbacks = watcher.callbacks + 1]_vars

\* the part of C23 the code keeps: the call is made when the file exists
C23_RestartWhenFileExists ==
    [][(watcher.pc = "check" /\ watcher' # watcher /\ watcher'.pc # "dead"
            /\ file.exists /\ elapsed_time(watcher) >= HOURS_12) =>
        watcher'.callbacks = watcher.callbacks + 1]_vars

\* the exception of the worker function is on the Task object of runner r
Recorded(me) ==
    /\ me.task.error = "boom"
    /\ me.task.exitcode = 1
    /\ me.task.failures = get_num_failures(me.given) + 1

\* C24: when the worker function raised an Exception, the error is recorded
\* on the Task object and, once the TaskRunner's process_task call is over,
\* the requeue policy has been applied to the task: one requeue request if
\* the task is within its retry limit and its input was valid, else none
C24_ExceptionContained ==
    \A r \in Runners :
        LET me == runner[r] IN
        (Raised(me) /\ me.pc = "done") =>
            /\ Recorded(me)
            /\ me.requeues = (IF should_requeue(me, limit) THEN 1 ELSE 0)

\* the part of C24 the code keeps: all of it unless the task/save request
\* raised ClientError
C24_ContainedUnlessDenied ==
    \A r \in Runners :
        LET me == runner[r] IN
        (Raised(me) /\ me.pc = "done" /\ me.denied # "save") =>
            /\ Recorded(me)
            /\ me.requeues = (IF should_requeue(me, limit) THEN 1 ELSE 0)

\* C25: whatever the remote service answers to queue/size and task/dequeue,
\* Worker.run ends only after stop() was called, and a TaskRunner is started
\* only for a request that returned a task
C25_RequestsNeverEndPolling ==
    /\ Terminated(worker) => worker.stopped
    /\ worker.pc = "yielded" => ~worker.task.none

\* the part of C25 the code keeps: a request that raises nothing never ends
\* the loop
C25_OnlyErrorStatusEndsPolling ==
    /\ worker.pc = "exited" => worker.stopped
    /\ worker.pc = "yielded" => ~worker.task.none

\* the import path of the worker function did not resolve
Unresolved(me) == me.calls = 0 /\ me.success = "false"

\* the failure is on the Task object as it is for a worker function that raised
RecordedFailure(me) ==
    /\ me.task.error \notin {AbsentS, NullS}
    /\ me.task.exitcode = 1
    /\ me.task.failures = get_num_failures(me.given) + 1
    /\ me.task.completed # Absent

\* C26: when the import path of the worker function does not resolve, the
\* task ends as it does when the worker function raises: error non-null,
\* exitcode = 1, failures one greater than at dispatch, completed set, and
\* the final task/save request issued
C26_UnresolvedIsFailure ==
    \A r \in Runners :
        LET me == runner[r] IN
        (Unresolved(me) /\ me.pc \in {"saved", "done"}) =>
            RecordedFailure(me) /\ me.saves = 1

\* the part of C26 the code keeps: the recorded state, and the save unless
\* Task.save refuses the grown record
C26_UnresolvedIsRecorded ==
    \A r \in Runners :
        LET me == runner[r] IN
        /\ (Unresolved(me) /\ me.pc \in {"saved", "done"}) =>
               RecordedFailure(me) /\ (is_valid_task(me.task) => me.saves = 1)
        /\ (Raised(me) /\ me.pc \in {"saved", "done"}) =>
               RecordedFailure(me) /\ (is_valid_task(me.task) => me.saves = 1)

\* the keys among completed, error and exitcode that d has with a value
\* other than None
DoneKeys(d) ==
    {k \in {"completed", "exitcode"} : HasKey(d, k)}
    \cup {k \in {"error"} : HasKey(d, k) /\ d[k] # NullS}

\* C27: Task.is_done() returns True exactly when completed, error or exitcode
\* is present with a value other than None (exitcode = 0 alone is enough),
\* False for a freshly dequeued task; the call sends no request and changes
\* nothing, so a second call gives the same answer
C27_IsDone ==
    /\ [](api.op = "is_done" =>
            /\ api.ret = "true" <=> DoneKeys(api.before) # {}
            /\ api.ret = "false" <=> DoneKeys(api.before) = {}
            /\ (\E t \in TaskIds, f \in {Absent} \cup (0 .. MaxFailures) :
                    api.before = NewTask(t, "dict_ok", f, "small")) => api.ret = "false"
            /\ api.reqs = 0
            /\ ctask = api.before)
    /\ [][(api.op = "is_done" /\ api'.op = "is_done") =>
            (api'.ret = api.ret /\ UNCHANGED <<ctask, remote>>)]_vars

\* is_done() was asked of a task that has exitcode = 0 and neither completed
\* nor an error
C27_Witness ==
    /\ api.op = "is_done"
    /\ api.ret = "true"
    /\ DoneKeys(api.before) = {"exitcode"}
    /\ api.before.exitcode = 0

\* C28 for one statement of Task.wait
C28_Step ==
    /\ (waiter.pc = "test" /\ waiter' # waiter) =>
           /\ waiter'.pc = "returned" <=> is_done(ctask)
           /\ waiter'.gets = waiter.gets
           /\ ctask' = ctask
    /\ (waiter.pc = "sleep" /\ waiter' # waiter) =>
           /\ waiter'.gets = waiter.gets + 1
           /\ waiter'.pc = "returned" <=> waiter'.elapsed >= waiter.timeout
           /\ waiter'.answer # "task" => ctask' = ctask

AtLimit(me) ==
    me.origin = "dequeue" /\ limit >= 1 /\ get_num_failures(me.given) = limit

\* C29: a dequeued task whose failures equal the limit (limit >= 1) passes
\* the retry check and its worker function is called once; when the call
\* raises, the failures become limit + 1 and no requeue request is made
C29_LastAttemptAtLimit ==
    \A r \in Runners :
        LET me == runner[r] IN
        AtLimit(me) =>
            /\ me.pc # "start" => Entered(me)
            /\ me.calls <= 1
            /\ (me.pc \in {"running", "finally", "saved", "done"}
                    /\ ~Unresolved(me)) => me.calls = 1
            /\ (me.success = "false" /\ me.pc \in {"saved", "done"}) =>
                   /\ me.task.failures = limit + 1
                   /\ me.requeues = 0

\* the worker function of a task at the limit raised and process_task is over
C29_Witness ==
    \E r \in Runners :
        LET me == runner[r] IN
        /\ AtLimit(me)
        /\ Raised(me)
        /\ me.pc = "done"
        /\ me.ret = "1"
        /\ me.task.failures = limit + 1
        /\ me.saves = 1
        /\ me.requeues = 0

\* C30: when process_task returns after the worker function ended, it
\* returns the exit code it recorded on the task: 0 when the worker function
\* returned normally, 1 when it raised and the task was not requeued
C30_ReturnsRecordedExitCode ==
    \A r \in Runners :
        LET me == runner[r] IN
        (me.pc = "done" /\ me.ret \in {"0", "1"}) =>
            /\ me.ret = (IF me.task.exitcode = 0 THEN "0" ELSE "1")
            /\ Returned(me) => me.ret = "0"
            /\ (Raised(me) /\ me.requeues = 0) => me.ret = "1"

\* the part of C30 the code keeps: 1 after an Exception, requeued or not,
\* which is the exit code recorded
C30_ReturnsOneAfterException ==
    \A r \in Runners :
        LET me == runner[r] IN
        (me.pc = "done" /\ me.ret \in {"0", "1"} /\ me.success = "false") =>
            me.ret = "1" /\ me.task.exitcode = 1

\* the TaskRunner threads that are in their worker function
Executing_threads == {s \in Slots : threads[s].pc = "executing"}

\* C31: at any time at most TASK_BATCH_SIZE TaskRunner threads of one Worker
\* are executing their worker function, over any number of polling cycles
C31_BatchBoundsRunning ==
    Cardinality(Executing_threads) <= TASK_BATCH_SIZE

\* the process_task call of runner r returned at the retry check, worker.py 196
Aborted(me) == me.pc = "done" /\ me.ret = "none" /\ ~entry_rejects(me.given)

\* C32 as claimed: when process_task returns at the retry check, every field
\* of the local task record, started included, has the value it had at the call
C32_AbortIsPureNoop ==
    \A r \in Runners :
        LET me == runner[r] IN
        Aborted(me) => \A k \in Keys : me.task[k] = me.given[k]

\* C32 as amended: process_task returns at the retry check only for a task
\* over the limit; it has then called no worker function and made no request,
\* the remote copy is as it was, and the local record differs from its state
\* at the call only in started, set to the current time before the check
C32_AbortKeepsAllButStarted ==
    \A r \in Runners :
        LET me == runner[r] IN
        Aborted(me) =>
            /\ get_num_failures(me.given) > limit
            /\ \A k \in Keys \ {"started"} : me.task[k] = me.given[k]
            /\ me.task.started # Absent
            /\ me.task.started <= clock
            /\ me.calls = 0 /\ me.saves = 0 /\ me.requeues = 0
            /\ me.origin = "dequeue" => remote[me.given.id] = me.given

\* a dequeued task over the limit was turned away with a new started stamp
C32_Witness ==
    \E r \in Runners :
        LET me == runner[r] IN
        /\ Aborted(me)
        /\ me.origin = "dequeue"
        /\ me.given.started = Absent
        /\ me.task.started > 0

\* validate_worker_input returned in the process_task call of runner r
Validated(me) == me.input_is_valid \in {"true", "false"}

\* C34: in every attempt in which the function resolved and
\* validate_worker_input returned, the worker function is called exactly
\* once whether the answer was true or false; the answer is recorded, no
\* requeue is made after false, and the exit code saved is that of the call
C34_InvalidInputStillRuns ==
    \A r \in Runners :
        LET me == runner[r] IN
        /\ Validated(me) => me.calls = 1
        /\ me.calls = 1 =>
              /\ Validated(me)
              /\ me.input_is_valid = "true" <=> me.task.data = "dict_ok"
        /\ me.requeues >= 1 => me.input_is_valid = "true"
        /\ (me.calls = 1 /\ me.saves = 1) =>
              me.sent.exitcode = (IF me.success = "false" THEN 1 ELSE 0)

\* an input that is no dict was passed to the worker function, which
\* returned, and one that does not bind made the call raise within the limit
C34_Witness ==
    \E r \in Runners :
        LET me == runner[r] IN
        /\ me.pc = "done"
        /\ me.input_is_valid = "false"
        /\ me.calls = 1
        /\ me.saves = 1
        /\ me.requeues = 0
        /\ \/ Returned(me) /\ me.task.data = "other"
           \/ Raised(me) /\ me.task.data = "dict_bad" /\ me.num_failures < limit

\* C36: once run_workers has created its pollers and passed start_running(),
\* is_running() is true exactly while a Worker's loop is active, also when the
\* Worker was stopped before start_running() was called
C36_FlagTracksLivePollers ==
    (main.pc \in {"pause", "returned"} /\ main.worker_count >= 1
        /\ worker.pc # "dead")
        => (running = "true" <=> ~Terminated(worker))

\* C37: process_task requeues a task whose worker function raised only when
\* the save carrying the incremented failures count was accepted: at the
\* requeue the remote copy is the record of the final save
C37_RequeueOnlyAfterStoredSave ==
    \A r \in Runners :
        LET me == runner[r] IN
        (me.origin = "dequeue" /\ Raised(me) /\ me.requeues >= 1) =>
            /\ remote[me.task.id] = me.task
            /\ remote[me.task.id].failures = get_num_failures(me.given) + 1

\* C38: a task/requeue request is never made for a task whose remote copy
\* satisfies is_done, so a client in Task.wait never sees an attempt as done
\* that is retried
C38_NoRequeueOnceDone ==
    [][\A r \in Runners :
          (runner'[r].requeues = runner[r].requeues + 1
              /\ runner[r].origin = "dequeue")
             => ~is_done(remote[runner[r].task.id])]_vars

\* C39: every task/requeue request follows a save whose payload has
\* exitcode = 1, an error that is not null and failures one greater than at
\* dispatch, however the worker function ended
C39_RequeueFollowsFailureSave ==
    \A r \in Runners :
        LET me == runner[r] IN
        (me.requeues >= 1 /\ me.saves = 1) =>
            /\ me.sent.exitcode = 1
            /\ me.sent.error \notin {AbsentS, NullS}
            /\ me.sent.failures = get_num_failures(me.given) + 1

\* C40: when the import path of the worker function does not resolve,
\* validate_worker_input is not reached and no task/requeue request is made,
\* whatever the failures count and the limit
C40_UnresolvedNeverRequeued ==
    \A r \in Runners :
        LET me == runner[r] IN
        Unresolved(me) =>
            /\ me.input_is_valid = "none"
            /\ me.requeues = 0
            /\ me.pc \in {"finally", "saved", "done"}
            /\ (me.pc = "done" /\ me.denied = "none") => me.ret = "1"

\* the path did not resolve for a task within the limit whose input binds
C40_Witness ==
    \E r \in Runners :
        LET me == runner[r] IN
        /\ Unresolved(me)
        /\ me.pc = "done"
        /\ me.origin = "dequeue"
        /\ me.task.data = "dict_ok"
        /\ me.num_failures < limit
        /\ me.saves = 1
        /\ me.requeues = 0

\* the FileWatcher thread has ended
WatcherEnded == watcher.pc \in {"exited", "dead", "replaced"}

\* C35: after stop() was called on the HealthCheck or on the FileWatcher,
\* before or after its run loop started, the thread begins no further
\* iteration of its loop, the FileWatcher calls restart_all no more, and the
\* thread eventually ends
C35_StopEndsUnits ==
    /\ [][(health.stopped /\ health.pc = "test") => health'.pc # "sample"]_vars
    /\ [][(watcher.stopped /\ watcher.pc = "sleep") => watcher'.pc # "check"]_vars
    /\ [][watcher.stopped => watcher'.callbacks = watcher.callbacks]_vars
    /\ <>[](health.stopped => health.pc = "exited")
    /\ <>[](watcher.stopped => WatcherEnded)

\* the part of C35 the code keeps: the HealthCheck, and a FileWatcher whose
\* running event is still clear when it comes to its loop test
C35_HealthCheckStops ==
    /\ [][(health.stopped /\ health.pc = "test") => health'.pc # "sample"]_vars
    /\ [][(watcher.stopped /\ ~watcher.running /\ watcher.pc = "sleep")
             => watcher'.pc # "check"]_vars
    /\ <>[](health.stopped => health.pc = "exited")

\* C33: no request made by the Worker or by a TaskRunner assigns a field of
\* the client they share
C33_ClientReadOnly ==
    client.writers = {}

====
